---- MODULE Spec2Model ----
(***************************************************************************)
(* A model of handprint/main_body.py: the MainBody constructor (the        *)
(* start-up checks), MainBody.targets_from_arguments (target resolution)   *)
(* and MainBody.run (worker count, start-of-batch summary, the item loop). *)
(*                                                                         *)
(* Strings are sequences of tokens, so that extensions, endings, newlines  *)
(* and integer literals are computed from the text and not assumed.        *)
(* Collaborators that live in other modules of the package (Manager,       *)
(* handprint.files, handprint.services) are modelled from their described  *)
(* contracts.                                                              *)
(***************************************************************************)
EXTENDS Integers, Sequences, FiniteSets, TLC

(* ------------------------------------------------------------------ *)
(* Bounds of the model.                                               *)
(* ------------------------------------------------------------------ *)
MaxManifestLen == 4
MaxInputs == 3
MaxDirFiles == 2
MaxSpecLen == 2
MaxCpus == 8

(* ------------------------------------------------------------------ *)
(* Generic sequence helpers.                                          *)
(* ------------------------------------------------------------------ *)
SeqsUpTo(S, n) == UNION {[1..k -> S] : k \in 0..n}

NoRepeat(s) == \A i, j \in 1..Len(s) : i # j => s[i] # s[j]

LastIndexOf(s, tok) ==
    IF \E i \in 1..Len(s) : s[i] = tok
    THEN CHOOSE i \in 1..Len(s) : s[i] = tok /\ \A j \in (i+1)..Len(s) : s[j] # tok
    ELSE 0

FirstIndexOf(s, tok) ==
    IF \E i \in 1..Len(s) : s[i] = tok
    THEN CHOOSE i \in 1..Len(s) : s[i] = tok /\ \A j \in 1..(i-1) : s[j] # tok
    ELSE 0

\* str.endswith
EndsWith(s, e) ==
    /\ Len(s) >= Len(e)
    /\ SubSeq(s, Len(s) - Len(e) + 1, Len(s)) = e

\* str.startswith
StartsWith(s, p) ==
    /\ Len(s) >= Len(p)
    /\ SubSeq(s, 1, Len(p)) = p

RECURSIVE Flatten(_)
Flatten(ss) == IF ss = <<>> THEN <<>> ELSE Head(ss) \o Flatten(Tail(ss))

CountOf(s, x) == Cardinality({i \in 1..Len(s) : s[i] = x})

(* ------------------------------------------------------------------ *)
(* The world the program runs in: names, the file system, services.   *)
(* ------------------------------------------------------------------ *)
ManifestPath == <<"list", ".", "txt">>
OutputPath == <<"out">>

\* raw inputs a caller can name
UrlGen == <<"http://", "h", "/", "b", ".", "google", ".", "jpg">>
FilePng == <<"p", ".", "png">>
FileGen == <<"r", ".", "google", ".", "jpg">>
FileTxt == <<"q", ".", "txt">>
Dir1 == <<"d">>
Missing == <<"m", ".", "png">>
ItemUniverse == {UrlGen, FilePng, FileGen, FileTxt, Dir1, Missing}

\* names a directory listing can hold
DirNames == {<<"a", ".", "png">>, <<"b", ".", "google", ".", "jpg">>, <<"c", ".", "txt">>}

\* os.path.join(dir, name)
PathJoin(dir, name) == dir \o <<"/">> \o name

\* os.path.isdir / os.path.isfile over the modelled file system
IsDir(p) == p = Dir1
IsFile(p, listing) ==
    \/ p \in {FilePng, FileGen, FileTxt}
    \/ \E i \in 1..Len(listing) : p = PathJoin(Dir1, listing[i])

\* handprint.files.is_url
IsUrl(p) == Len(p) > 0 /\ p[1] \in {"http://", "https://"}

\* handprint.files.filename_extension: the last component's text from its
\* last dot on, or the empty string
FilenameExtension(p) ==
    LET name == SubSeq(p, LastIndexOf(p, "/") + 1, Len(p))
        dot  == LastIndexOf(name, ".")
    IN  IF dot = 0 THEN <<>> ELSE SubSeq(name, dot, Len(name))

\* handprint.services.ACCEPTED_FORMATS
ACCEPTED_FORMATS ==
    {<<".", "jpg">>, <<".", "jpeg">>, <<".", "png">>, <<".", "gif">>, <<".", "bmp">>}

\* handprint.services.services_list()
ServicesList == <<"amazon", "google", "microsoft">>

\* handprint.files.files_in_directory(dir, extensions): the directory's
\* files that carry one of the extensions, as full paths, in listing order
RECURSIVE FilesInDirectory(_, _, _)
FilesInDirectory(dir, listing, extensions) ==
    IF listing = <<>> THEN <<>>
    ELSE LET rest == FilesInDirectory(dir, Tail(listing), extensions)
         IN  IF FilenameExtension(Head(listing)) \in extensions
             THEN <<PathJoin(dir, Head(listing))>> \o rest
             ELSE rest

\* handprint.files.filter_by_extensions(files, endings): drop the names
\* that end in one of the endings
RECURSIVE FilterByExtensions(_, _)
FilterByExtensions(files, endings) ==
    IF files = <<>> THEN <<>>
    ELSE LET rest == FilterByExtensions(Tail(files), endings)
         IN  IF \E i \in 1..Len(endings) : EndsWith(Head(files), endings[i])
             THEN rest
             ELSE <<Head(files)>> \o rest

(* ------------------------------------------------------------------ *)
(* targets_from_arguments                                             *)
(* ------------------------------------------------------------------ *)

\* f.readlines(): each line keeps its terminator; a last line without a
\* terminator is a line too; an empty file has no lines
RECURSIVE ReadLines(_)
ReadLines(text) ==
    IF text = <<>> THEN <<>>
    ELSE LET i == FirstIndexOf(text, "\n")
         IN  IF i = 0 THEN <<text>>
             ELSE <<SubSeq(text, 1, i)>> \o ReadLines(SubSeq(text, i + 1, Len(text)))

\* line.rstrip('\n')
RECURSIVE RstripNewline(_)
RstripNewline(line) ==
    IF line # <<>> /\ line[Len(line)] = "\n"
    THEN RstripNewline(SubSeq(line, 1, Len(line) - 1))
    ELSE line

\* ['.' + x + '.jpg' for x in services_list()]
HandprintEndings == [i \in 1..Len(ServicesList) |-> <<".", ServicesList[i], ".", "jpg">>]

\* One pass of the loop body over a raw input: what it adds to targets and
\* what it says to the sink.
ItemContribution_nofilter(item, listing) ==
    IF IsUrl(item) THEN [add |-> <<item>>, warn |-> <<>>]
    ELSE IF IsFile(item, listing) /\ FilenameExtension(item) \in ACCEPTED_FORMATS
    THEN [add |-> <<item>>, warn |-> <<>>]
    ELSE IF IsDir(item)
    THEN [add |-> FilesInDirectory(item, listing, ACCEPTED_FORMATS), warn |-> <<>>]
    ELSE [add |-> <<>>, warn |-> << <<"warn", item>> >>]

ItemContribution(item, listing) ==
    IF IsUrl(item) THEN [add |-> <<item>>, warn |-> <<>>]
    ELSE IF IsFile(item, listing) /\ FilenameExtension(item) \in ACCEPTED_FORMATS
    THEN [add |-> <<item>>, warn |-> <<>>]
    ELSE IF IsDir(item)
    THEN [add |-> FilterByExtensions(FilesInDirectory(item, listing, ACCEPTED_FORMATS),
                                     HandprintEndings),
          warn |-> <<>>]
    ELSE [add |-> <<>>, warn |-> << <<"warn", item>> >>]

\* The for loop over the raw inputs.  The iterator is taken over the list
\* the caller passed; rebinding the name `files` inside the body does not
\* change what is iterated.
RECURSIVE ResolveLoop_overwrite(_, _, _, _)
ResolveLoop_overwrite(iter, listing, targets, warns) ==
    IF iter = <<>> THEN [targets |-> targets, warns |-> warns]
    ELSE LET c == ItemContribution(Head(iter), listing)
         IN  ResolveLoop_overwrite(Tail(iter), listing,
                                   IF IsDir(Head(iter)) THEN c.add ELSE targets \o c.add,
                                   warns \o c.warn)

RECURSIVE ResolveLoop(_, _, _, _)
ResolveLoop(iter, listing, targets, warns) ==
    IF iter = <<>> THEN [targets |-> targets, warns |-> warns]
    ELSE LET c == ItemContribution(Head(iter), listing)
         IN  ResolveLoop(Tail(iter), listing, targets \o c.add, warns \o c.warn)

TargetsFromArguments_fallthrough(files, from_file, text, listing) ==
    LET lines == IF from_file # <<>>
                 THEN [i \in 1..Len(ReadLines(text)) |-> RstripNewline(ReadLines(text)[i])]
                 ELSE <<>>
    IN  ResolveLoop(files, listing, lines, <<>>)

TargetsFromArguments(files, from_file, text, listing) ==
    IF from_file # <<>>
    THEN [targets |-> [i \in 1..Len(ReadLines(text)) |-> RstripNewline(ReadLines(text)[i])],
          warns |-> <<>>]
    ELSE ResolveLoop(files, listing, <<>>, <<>>)

(* ------------------------------------------------------------------ *)
(* The worker count: run, line 84                                     *)
(*   procs = int(max(1, available_cpus()/2 if threads == 'T'          *)
(*                      else int(threads)))                           *)
(* ------------------------------------------------------------------ *)
AutoSentinel == <<"T">>
ThreadChars == {"-", "0", "2", "x"}
ThreadSpecs == {AutoSentinel} \cup SeqsUpTo(ThreadChars, MaxSpecLen)

Digits == {"0", "1", "2", "3", "4", "5", "6", "7", "8", "9"}
DigitVal(c) ==
    CASE c = "0" -> 0 [] c = "1" -> 1 [] c = "2" -> 2 [] c = "3" -> 3 [] c = "4" -> 4
      [] c = "5" -> 5 [] c = "6" -> 6 [] c = "7" -> 7 [] c = "8" -> 8 [] c = "9" -> 9

RECURSIVE DigitsValue(_, _)
DigitsValue(s, acc) ==
    IF s = <<>> THEN acc ELSE DigitsValue(Tail(s), acc * 10 + DigitVal(Head(s)))

\* int(str): an optional sign followed by one or more decimal digits;
\* anything else is a ValueError
ParseInt(s) ==
    LET signed == s # <<>> /\ s[1] \in {"-", "+"}
        body   == IF signed THEN Tail(s) ELSE s
    IN  IF body # <<>> /\ \A i \in 1..Len(body) : body[i] \in Digits
        THEN [ok |-> TRUE,
              val |-> IF signed /\ s[1] = "-" THEN 0 - DigitsValue(body, 0)
                      ELSE DigitsValue(body, 0)]
        ELSE [ok |-> FALSE, val |-> 0]

\* numbers are fractions n/d with d > 0, so that true division is exact
Num(n) == [n |-> n, d |-> 1]
TrueDiv(a, b) == [n |-> a, d |-> b]

\* max(a, b): the first of the largest
PyMax(a, b) == IF b.n * a.d > a.n * b.d THEN b ELSE a

\* int(x): truncation toward zero
PyInt(x) == IF x.n >= 0 THEN x.n \div x.d ELSE 0 - ((0 - x.n) \div x.d)

Procs_noclamp(threads, cpus) ==
    IF threads = AutoSentinel
    THEN [ok |-> TRUE, val |-> PyInt(TrueDiv(cpus, 2))]
    ELSE IF ParseInt(threads).ok
         THEN [ok |-> TRUE, val |-> PyInt(Num(ParseInt(threads).val))]
         ELSE [ok |-> FALSE, val |-> 0]

Procs(threads, cpus) ==
    IF threads = AutoSentinel
    THEN [ok |-> TRUE, val |-> PyInt(PyMax(Num(1), TrueDiv(cpus, 2)))]
    ELSE IF ParseInt(threads).ok
         THEN [ok |-> TRUE, val |-> PyInt(PyMax(Num(1), Num(ParseInt(threads).val)))]
         ELSE [ok |-> FALSE, val |-> 0]

\* print_separators = num > 1 and not say.be_quiet()
PrintSeparators_any(num, quiet) == num > 0 /\ ~quiet

PrintSeparators(num, quiet) == num > 1 /\ ~quiet

(* ------------------------------------------------------------------ *)
(* MainBody.__init__                                                  *)
(* ------------------------------------------------------------------ *)
\* The status of the output path: "absent", "file", "dir_rw" (a writable
\* directory) or "dir_ro" (a directory that is not writable).
OutStats == {"absent", "file", "dir_rw", "dir_ro"}
ManifestStats == {"missing", "unreadable", "readable"}

\* The result of the constructor: the exception it raises ("none" when it
\* returns), the status of the output path afterwards and whether os.mkdir
\* made the directory.
InitOutcome_mkdirFirst(e, a) ==
    LET make == a.output_dir # <<>> /\ e.outStat = "absent" /\ e.mkdirOK
        out  == IF make THEN "dir_rw" ELSE e.outStat
    IN  IF a.output_dir # <<>> /\ e.outStat = "dir_ro"
        THEN [raised |-> "RuntimeError: Directory not writable", out |-> out, created |-> make]
        ELSE IF a.output_dir # <<>> /\ e.outStat = "file"
        THEN [raised |-> "FileExistsError", out |-> out, created |-> make]
        ELSE IF a.output_dir # <<>> /\ e.outStat = "absent" /\ ~e.mkdirOK
        THEN [raised |-> "OSError", out |-> out, created |-> make]
        ELSE IF ~e.network
        THEN [raised |-> "ServiceFailure: No network", out |-> out, created |-> make]
        ELSE IF a.from_file # <<>> /\ e.manifestStat = "missing"
        THEN [raised |-> "RuntimeError: File not found", out |-> out, created |-> make]
        ELSE IF a.from_file # <<>> /\ e.manifestStat = "unreadable"
        THEN [raised |-> "RuntimeError: File not readable", out |-> out, created |-> make]
        ELSE [raised |-> "none", out |-> out, created |-> make]

InitOutcome(e, a) ==
    IF ~e.network
    THEN [raised |-> "ServiceFailure: No network", out |-> e.outStat, created |-> FALSE]
    ELSE IF a.from_file # <<>> /\ e.manifestStat = "missing"
    THEN [raised |-> "RuntimeError: File not found", out |-> e.outStat, created |-> FALSE]
    ELSE IF a.from_file # <<>> /\ e.manifestStat = "unreadable"
    THEN [raised |-> "RuntimeError: File not readable", out |-> e.outStat, created |-> FALSE]
    ELSE IF a.output_dir = <<>>
    THEN [raised |-> "none", out |-> e.outStat, created |-> FALSE]
    ELSE IF e.outStat \in {"dir_rw", "dir_ro"}
    THEN IF e.outStat = "dir_ro"
         THEN [raised |-> "RuntimeError: Directory not writable",
               out |-> e.outStat, created |-> FALSE]
         ELSE [raised |-> "none", out |-> e.outStat, created |-> FALSE]
    \* os.mkdir(output_dir)
    ELSE IF e.outStat = "file"
    THEN [raised |-> "FileExistsError", out |-> e.outStat, created |-> FALSE]
    ELSE IF ~e.mkdirOK
    THEN [raised |-> "OSError", out |-> e.outStat, created |-> FALSE]
    ELSE [raised |-> "none", out |-> "dir_rw", created |-> TRUE]

(* ------------------------------------------------------------------ *)
(* State                                                              *)
(* ------------------------------------------------------------------ *)
VARIABLES
    env,               \* what the probes report: network, file system, CPUs, sink mode
    args,              \* the arguments of MainBody(...) and of run(services, files)
    outDir,            \* the status of the output path now
    created,           \* os.mkdir has made the output directory
    pc,                \* where the program is
    self,              \* <<>> before construction, else <<the object's fields>>
    targets,           \* run: targets
    num,               \* run: num
    print_separators,  \* run: print_separators
    procs,             \* run: procs
    manager,           \* <<>> before Manager(...) is made, else <<its arguments>>
    index,             \* run: the loop's index
    calls,             \* the manager.process calls made, in order
    results,           \* the outcomes of the calls that returned, in order
    hung,              \* the index of the call that will never return, or 0
    trace,             \* what the sink was told and which calls were made, in order
    raised             \* the exception that ended the program, or "none"

vars == <<env, args, outDir, created, pc, self, targets, num, print_separators,
          procs, manager, index, calls, results, hung, trace, raised>>

Ev(kind, item, n) == [kind |-> kind, item |-> item, n |-> n]

\* the characters of a manifest: "d" alone names the directory Dir1
ManifestChars == {"d", ".", "txt", "\n"}

NominalEnv ==
    [network |-> TRUE, manifestStat |-> "readable", manifestText |-> <<"d", "\n">>,
     outStat |-> "absent", mkdirOK |-> TRUE, cpus |-> 4,
     listing |-> << <<"a", ".", "png">>, <<"b", ".", "google", ".", "jpg">> >>,
     quiet |-> FALSE]

NominalArgs ==
    [base_name |-> "document", extended |-> FALSE, from_file |-> <<>>,
     output_dir |-> <<>>, threads |-> AutoSentinel,
     services |-> <<"google", "microsoft">>, files |-> <<UrlGen, FileGen>>]

\* every combination of the conditions the constructor looks at
StartupConfigs ==
    {<<[NominalEnv EXCEPT !.network = n, !.manifestStat = m, !.outStat = o, !.mkdirOK = k],
       [NominalArgs EXCEPT !.from_file = f, !.output_dir = d, !.extended = x]>> :
        n \in BOOLEAN, m \in ManifestStats, o \in OutStats, k \in BOOLEAN,
        f \in {<<>>, ManifestPath}, d \in {<<>>, OutputPath}, x \in BOOLEAN}

\* every manifest text up to the bound, with and without raw inputs
ManifestConfigs ==
    {<<[NominalEnv EXCEPT !.manifestText = t],
       [NominalArgs EXCEPT !.from_file = ManifestPath, !.files = fs]>> :
        t \in SeqsUpTo(ManifestChars, MaxManifestLen),
        fs \in {<<>>, <<UrlGen, FilePng>>}}

\* every list of raw inputs up to the bound
InputConfigs ==
    {<<NominalEnv, [NominalArgs EXCEPT !.files = fs]>> :
        fs \in SeqsUpTo(ItemUniverse, MaxInputs)}

\* every directory listing up to the bound
ListingConfigs ==
    {<<[NominalEnv EXCEPT !.listing = l], [NominalArgs EXCEPT !.files = fs]>> :
        l \in {s \in SeqsUpTo(DirNames, MaxDirFiles) : NoRepeat(s)},
        fs \in {<<Dir1>>, <<Dir1, Dir1>>, <<UrlGen, FileGen, Dir1>>}}

\* every thread specification, CPU count and sink mode, for one to three items
PlanConfigs ==
    {<<[NominalEnv EXCEPT !.cpus = c, !.quiet = q],
       [NominalArgs EXCEPT !.threads = t, !.files = fs]>> :
        c \in 1..MaxCpus, q \in BOOLEAN, t \in ThreadSpecs,
        fs \in {<<UrlGen>>, <<UrlGen, FileGen>>, <<UrlGen, FileGen, UrlGen>>}}

Configs == StartupConfigs \cup ManifestConfigs \cup InputConfigs
             \cup ListingConfigs \cup PlanConfigs

Init ==
    /\ \E c \in Configs : env = c[1] /\ args = c[2]
    /\ outDir = env.outStat
    /\ created = FALSE
    /\ pc = "start"
    /\ self = <<>>
    /\ targets = <<>>
    /\ num = 0
    /\ print_separators = FALSE
    /\ procs = 0
    /\ manager = <<>>
    /\ index = 0
    /\ calls = <<>>
    /\ results = <<>>
    /\ hung = 0
    /\ trace = <<>>
    /\ raised = "none"

(* ------------------------------------------------------------------ *)
(* MainBody(base_name, extended, from_file, output_dir, threads, say)  *)
(* ------------------------------------------------------------------ *)
Construct ==
    /\ pc = "start"
    /\ LET o == InitOutcome(env, args)
       IN  /\ outDir' = o.out
           /\ created' = o.created
           /\ raised' = o.raised
           /\ IF o.raised = "none"
              THEN /\ pc' = "constructed"
                   /\ self' = << [_base_name |-> args.base_name,
                                  _extended |-> args.extended,
                                  _from_file |-> args.from_file,
                                  _output_dir |-> args.output_dir,
                                  _threads |-> args.threads] >>
              ELSE /\ pc' = "init_raised"
                   /\ self' = self
    /\ UNCHANGED <<env, args, targets, num, print_separators, procs, manager,
                   index, calls, results, hung, trace>>

(* ------------------------------------------------------------------ *)
(* run(services, files)                                               *)
(* ------------------------------------------------------------------ *)
NoWork == "RuntimeError: No images to process"

\* targets = self.targets_from_arguments(files, from_file)
\* if not targets: raise RuntimeError(...)
RunResolve_nocheck ==
    /\ pc = "constructed"
    /\ LET r == TargetsFromArguments(args.files, self[1]._from_file,
                                     env.manifestText, env.listing)
       IN  /\ targets' = r.targets
           /\ trace' = trace \o [i \in 1..Len(r.warns) |-> Ev("warn", r.warns[i][2], 0)]
           /\ pc' = "plan"
           /\ raised' = raised
    /\ UNCHANGED <<env, args, outDir, created, self, num, print_separators, procs,
                   manager, index, calls, results, hung>>

RunResolve ==
    /\ pc = "constructed"
    /\ LET r == TargetsFromArguments(args.files, self[1]._from_file,
                                     env.manifestText, env.listing)
       IN  /\ targets' = r.targets
           /\ trace' = trace \o [i \in 1..Len(r.warns) |-> Ev("warn", r.warns[i][2], 0)]
           /\ IF r.targets = <<>>
              THEN pc' = "raised" /\ raised' = NoWork
              ELSE pc' = "plan" /\ raised' = raised
    /\ UNCHANGED <<env, args, outDir, created, self, num, print_separators, procs,
                   manager, index, calls, results, hung>>

\* num, print_separators, procs
RunPlan ==
    /\ pc = "plan"
    /\ num' = Len(targets)
    /\ print_separators' = PrintSeparators(Len(targets), env.quiet)
    /\ LET p == Procs(self[1]._threads, env.cpus)
       IN  IF p.ok
           THEN procs' = p.val /\ pc' = "summary" /\ raised' = raised
           ELSE procs' = procs /\ pc' = "raised" /\ raised' = "ValueError"
    /\ UNCHANGED <<env, args, outDir, created, self, targets, manager, index,
                   calls, results, hung, trace>>

\* the say.info calls before the work starts
RunSummary ==
    /\ pc = "summary"
    /\ trace' = trace \o <<Ev("info_summary", <<>>, num)>>
                      \o (IF self[1]._extended THEN <<Ev("info_extended", <<>>, 0)>> ELSE <<>>)
                      \o <<Ev("info_threads", <<>>, procs)>>
    /\ pc' = "make_manager"
    /\ UNCHANGED <<env, args, outDir, created, self, targets, num, print_separators,
                   procs, manager, index, calls, results, hung, raised>>

\* manager = Manager(services, procs, output_dir, extended, say)
RunCreateManager ==
    /\ pc = "make_manager"
    /\ manager' = << [services |-> args.services, procs |-> procs,
                      output_dir |-> self[1]._output_dir,
                      extended |-> self[1]._extended] >>
    /\ index' = 1
    /\ pc' = "loop"
    /\ UNCHANGED <<env, args, outDir, created, self, targets, num, print_separators,
                   procs, calls, results, hung, trace, raised>>

\* if print_separators: say.msg('='*70, 'dark')    (inside the loop)
LoopSeparator ==
    /\ pc = "loop"
    /\ index <= num
    /\ print_separators
    /\ trace' = Append(trace, Ev("sep", <<>>, 0))
    /\ pc' = "call"
    /\ UNCHANGED <<env, args, outDir, created, self, targets, num, print_separators,
                   procs, manager, index, calls, results, hung, raised>>

\* manager.process(item, index, base_name): the call is made and run waits
\* for it to return
ProcessCall_async ==
    /\ \/ pc = "call"
       \/ pc = "loop" /\ index <= num /\ ~print_separators
    /\ calls' = Append(calls, [item |-> targets[index], index |-> index])
    /\ trace' = Append(trace, Ev("process", targets[index], index))
    /\ index' = index + 1
    /\ pc' = "loop"
    /\ UNCHANGED <<env, args, outDir, created, self, targets, num, print_separators,
                   procs, manager, results, hung, raised>>

ProcessCall_index0 ==
    /\ \/ pc = "call"
       \/ pc = "loop" /\ index <= num /\ ~print_separators
    /\ calls' = Append(calls, [item |-> targets[index], index |-> index - 1])
    /\ trace' = Append(trace, Ev("process", targets[index], index - 1))
    /\ pc' = "in_process"
    /\ UNCHANGED <<env, args, outDir, created, self, targets, num, print_separators,
                   procs, manager, index, results, hung, raised>>

ProcessCall ==
    /\ \/ pc = "call"
       \/ pc = "loop" /\ index <= num /\ ~print_separators
    /\ calls' = Append(calls, [item |-> targets[index], index |-> index])
    /\ trace' = Append(trace, Ev("process", targets[index], index))
    /\ pc' = "in_process"
    /\ UNCHANGED <<env, args, outDir, created, self, targets, num, print_separators,
                   procs, manager, index, results, hung, raised>>

\* a backend call of the item in process hangs: the call never returns
ProcessHang ==
    /\ Len(calls) > Len(results)
    /\ hung = 0
    /\ hung' = Len(results) + 1
    /\ UNCHANGED <<env, args, outDir, created, pc, self, targets, num,
                   print_separators, procs, manager, index, calls, results,
                   trace, raised>>

\* Manager.process: the ways a call ends when it ends.  A failure of the
\* item is caught inside the call and reported through the sink; the call
\* returns in both cases.
ProcessOutcomes == {"ok", "fail"}

\* manager.process returns and the loop goes on to the next item
ProcessReturn_abort ==
    /\ pc = "in_process"
    /\ hung = 0
    /\ \E outcome \in ProcessOutcomes :
        /\ results' = Append(results, outcome)
        /\ IF outcome = "fail"
           THEN /\ trace' = trace
                /\ pc' = "raised"
                /\ raised' = "ItemFailure"
                /\ index' = index
           ELSE /\ trace' = trace
                /\ pc' = "loop"
                /\ raised' = raised
                /\ index' = index + 1
    /\ UNCHANGED <<env, args, outDir, created, self, targets, num, print_separators,
                   procs, manager, calls, hung>>

ProcessReturn ==
    /\ pc = "in_process"
    /\ hung = 0
    /\ \E outcome \in ProcessOutcomes :
        /\ results' = Append(results, outcome)
        /\ trace' = IF outcome = "fail"
                    THEN Append(trace, Ev("warn_item", targets[index], index))
                    ELSE trace
    /\ index' = index + 1
    /\ pc' = "loop"
    /\ UNCHANGED <<env, args, outDir, created, self, targets, num, print_separators,
                   procs, manager, calls, hung, raised>>

\* the loop is exhausted; if print_separators: say.msg('='*70, 'dark')
LoopExit ==
    /\ pc = "loop"
    /\ index > num
    /\ trace' = IF print_separators THEN Append(trace, Ev("sep", <<>>, 0)) ELSE trace
    /\ pc' = "done"
    /\ UNCHANGED <<env, args, outDir, created, self, targets, num, print_separators,
                   procs, manager, index, calls, results, hung, raised>>

Next ==
    \/ Construct
    \/ RunResolve
    \/ RunPlan
    \/ RunSummary
    \/ RunCreateManager
    \/ LoopSeparator
    \/ ProcessCall
    \/ ProcessHang
    \/ ProcessReturn
    \/ LoopExit

Spec == Init /\ [][Next]_vars

\* the interpreter keeps running the program while it has a step to take
FairSpec == Init /\ [][Next]_vars /\ WF_vars(Next)

(* ------------------------------------------------------------------ *)
(* Properties                                                         *)
(* ------------------------------------------------------------------ *)
PastResolve == pc \notin {"start", "init_raised", "constructed"}
PastPlan == pc \in {"summary", "make_manager", "loop", "call", "in_process", "done"}
Separators == Cardinality({i \in 1..Len(trace) : trace[i].kind = "sep"})

C2_EmptyWorkListRaisesBeforeWork ==
    /\ (PastResolve /\ targets = <<>>) => (pc = "raised" /\ raised = NoWork)
    /\ raised = NoWork =>
          /\ targets = <<>>
          /\ manager = <<>>
          /\ calls = <<>>
          /\ \A i \in 1..Len(trace) : trace[i].kind = "warn"

C2_Witness ==
    /\ raised = NoWork
    /\ args.from_file = <<>>
    /\ args.files = <<Dir1>>
    /\ env.listing = << <<"b", ".", "google", ".", "jpg">> >>

\* C3: the worker count is never zero; for the auto sentinel it is
\* max(1, floor(cpus / 2)) and for an integer n it is max(1, n).
C3_WorkerCount ==
    PastPlan =>
        LET t == self[1]._threads
            c == env.cpus
            half == c \div 2
        IN  /\ procs >= 1
            /\ t = AutoSentinel => procs = (IF half >= 1 THEN half ELSE 1)
            /\ (t = AutoSentinel /\ c = 8) => procs = 4
            /\ (t = AutoSentinel /\ c \in {1, 2, 3}) => procs = 1
            /\ t # AutoSentinel =>
                  /\ ParseInt(t).ok
                  /\ procs = (IF ParseInt(t).val >= 1 THEN ParseInt(t).val ELSE 1)
            /\ t \in {<<"0">>, <<"-", "2">>, <<"-", "0">>, <<"0", "0">>} => procs = 1
            /\ t \in {<<"2">>, <<"0", "2">>} => procs = 2
            /\ t = <<"2", "0">> => procs = 20

C3_Witness ==
    /\ PastPlan
    /\ self[1]._threads = AutoSentinel
    /\ env.cpus = 3
    /\ procs = 1

\* The non-empty lines of a text, read left to right: a line ends at each
\* newline and at the end of the text.
RECURSIVE NonEmptyLines(_, _, _)
NonEmptyLines(text, cur, acc) ==
    IF text = <<>> THEN (IF cur = <<>> THEN acc ELSE Append(acc, cur))
    ELSE IF Head(text) = "\n"
    THEN NonEmptyLines(Tail(text), <<>>, IF cur = <<>> THEN acc ELSE Append(acc, cur))
    ELSE NonEmptyLines(Tail(text), Append(cur, Head(text)), acc)

\* C4: with a manifest, the non-empty targets are exactly the non-empty
\* lines of the manifest, one per occurrence and in file order, whatever
\* their extension; no target keeps a newline and none comes from the raw
\* inputs.
C4_ManifestLinesVerbatim ==
    (PastResolve /\ args.from_file # <<>>) =>
        /\ SelectSeq(targets, LAMBDA t : t # <<>>) = NonEmptyLines(env.manifestText, <<>>, <<>>)
        /\ \A i \in 1..Len(targets) :
              /\ \A j \in 1..Len(targets[i]) : targets[i][j] # "\n"
              /\ \A j \in 1..Len(args.files) : targets[i] # args.files[j]

C4_Witness ==
    /\ pc = "plan"
    /\ args.from_file # <<>>
    /\ args.files # <<>>
    /\ env.manifestText = <<"d", "\n", "\n", "d">>
    /\ targets = << <<"d">>, <<>>, <<"d">> >>

IsGenerated(p) ==
    \E i \in 1..Len(ServicesList) : EndsWith(p, <<".", ServicesList[i], ".", "jpg">>)

\* C5: a directory given as a raw input contributes none of its files named
\* after the generated-artifact convention and every other file of it that
\* has an accepted extension.
C5_DirectorySkipsGenerated ==
    (PastResolve /\ args.from_file = <<>> /\ \E k \in 1..Len(args.files) : args.files[k] = Dir1) =>
        /\ \A i \in 1..Len(targets) :
              StartsWith(targets[i], PathJoin(Dir1, <<>>)) => ~IsGenerated(targets[i])
        /\ \A j \in 1..Len(env.listing) :
              (FilenameExtension(env.listing[j]) \in ACCEPTED_FORMATS /\ ~IsGenerated(env.listing[j]))
                  => \E i \in 1..Len(targets) : targets[i] = PathJoin(Dir1, env.listing[j])

C5_Witness ==
    /\ pc = "plan"
    /\ args.from_file = <<>>
    /\ args.files = <<Dir1>>
    /\ env.listing = << <<"b", ".", "google", ".", "jpg">>, <<"a", ".", "png">> >>
    /\ targets = << PathJoin(Dir1, <<"a", ".", "png">>) >>

\* what one raw input is to contribute
ExpectedOf(item, listing) ==
    IF IsUrl(item) THEN <<item>>
    ELSE IF IsDir(item)
    THEN LET kept == SelectSeq(listing, LAMBDA n :
                        FilenameExtension(n) \in ACCEPTED_FORMATS /\ ~IsGenerated(n))
         IN  [i \in 1..Len(kept) |-> PathJoin(item, kept[i])]
    ELSE IF IsFile(item, listing) /\ FilenameExtension(item) \in ACCEPTED_FORMATS
    THEN <<item>>
    ELSE <<>>

\* C6: without a manifest the WorkList is the concatenation, in raw-input
\* order, of what each input contributes; nothing is reordered or
\* deduplicated, a named URL or file is kept even under a generated name,
\* and each input that is none of URL, accepted file or directory produces
\* one warning and nothing else.
C6_ConcatenationInInputOrder ==
    (PastResolve /\ args.from_file = <<>>) =>
        /\ targets = Flatten([i \in 1..Len(args.files) |-> ExpectedOf(args.files[i], env.listing)])
        /\ \A i \in 1..Len(args.files) :
              (IsUrl(args.files[i]) \/ args.files[i] \in {FilePng, FileGen}) =>
                  CountOf(targets, args.files[i]) = CountOf(args.files, args.files[i])
        /\ LET warned == SelectSeq(trace, LAMBDA e : e.kind = "warn")
               skipped == SelectSeq(args.files, LAMBDA f :
                              ~IsDir(f) /\ ExpectedOf(f, env.listing) = <<>>)
           IN  [i \in 1..Len(warned) |-> warned[i].item] = skipped

C6_Witness ==
    /\ pc = "plan"
    /\ args.from_file = <<>>
    /\ args.files = <<UrlGen, FileGen, Dir1>>
    /\ targets = <<UrlGen, FileGen, PathJoin(Dir1, <<"a", ".", "png">>)>>

\* C7: the constructor raises when the network is down, when a given
\* manifest is missing or unreadable and when the output directory exists
\* and is not writable, and then nothing has been created or changed; the
\* output directory is made only if it was asked for, did not exist, and
\* the network and manifest checks passed.
C7_StartupChecks ==
    pc # "start" =>
        LET failing == \/ ~env.network
                       \/ args.from_file # <<>> /\ env.manifestStat # "readable"
                       \/ args.output_dir # <<>> /\ env.outStat = "dir_ro"
        IN  /\ failing => /\ pc = "init_raised"
                          /\ raised # "none"
                          /\ ~created
                          /\ outDir = env.outStat
                          /\ self = <<>>
                          /\ trace = <<>>
            /\ pc = "init_raised" => (~created /\ outDir = env.outStat /\ self = <<>>)
            /\ created => /\ args.output_dir # <<>>
                          /\ env.outStat = "absent"
                          /\ env.network
                          /\ (args.from_file = <<>> \/ env.manifestStat = "readable")
                          /\ outDir = "dir_rw"

C7_Witness ==
    /\ pc = "init_raised"
    /\ env.network
    /\ args.from_file # <<>>
    /\ env.manifestStat = "unreadable"
    /\ args.output_dir # <<>>
    /\ env.outStat = "absent"
    /\ env.mkdirOK
    /\ ~created

Handed(j) == \E i \in 1..Len(calls) : calls[i].index = j

C9_SerialInOrder ==
    /\ Len(calls) <= Len(results) + 1
    /\ (Len(calls) = Len(results) + 1) <=> (pc = "in_process")
    /\ Len(calls) <= num
    /\ \A j \in 1..Len(calls) : calls[j] = [item |-> targets[j], index |-> j]
    /\ pc = "done" => (Len(calls) = num /\ Len(results) = num)

C9_Witness ==
    /\ pc = "done"
    /\ num = 3
    /\ results = <<"ok", "ok", "ok">>
    /\ calls = [j \in 1..3 |-> [item |-> targets[j], index |-> j]]

\* C10: separators are emitted only for more than one item and a sink that
\* is not quiet; then one comes right before each item's processing and one
\* after the last item, num + 1 in all.
C10_Separators ==
    /\ Separators > 0 => (num > 1 /\ ~env.quiet)
    /\ (PastPlan /\ num > 1 /\ ~env.quiet) =>
          /\ \A i \in 1..Len(trace) :
                trace[i].kind = "process" => (i > 1 /\ trace[i - 1].kind = "sep")
          /\ Separators <= Len(calls) + 1
          /\ pc \in {"call", "in_process"} => Separators = Len(calls) + (IF pc = "call" THEN 1 ELSE 0)
          /\ pc = "done" => (Separators = num + 1 /\ trace[Len(trace)].kind = "sep")

C10_Witness ==
    /\ pc = "done"
    /\ num = 3
    /\ ~env.quiet
    /\ Separators = 4

====
